---- MODULE Spec2Model ----
(***************************************************************************)
(* The traffic ingestion pipeline of the intrusion detection backend:      *)
(* POST /api/traffic/log and POST /api/traffic/analyze, the three tables    *)
(* they write (traffic_logs, alerts, blocked_ips) and the socket.io rooms   *)
(* they publish to.                                                         *)
(*                                                                          *)
(* Node runs each handler on one event loop: the code between two awaits    *)
(* runs without interruption, and other requests run while a handler waits  *)
(* for the database or for the classifier.  Every action below is one such  *)
(* uninterrupted piece: a handler resumes, runs to its next await, and the  *)
(* database operation that await waits for takes effect.                    *)
(*                                                                          *)
(* Numbers: a confidence is an integer number of ten-thousandths            *)
(* (0.8999 is 8999); an optional number is <<>> (absent) or <<v>>.          *)
(* An absent string is "".  Time is counted in minutes.                     *)
(***************************************************************************)
EXTENDS Integers, Sequences, FiniteSets, Bags, TLC

\* ------------------------------------------------------------------ bounds
MaxReqs == 2
MaxConns == 1
MaxTime == 1

Reqs == 1..MaxReqs
Conns == 1..MaxConns

\* --------------------------------------------------------------- constants
\* 24 * 60 * 60 * 1000 ms, in minutes
BlockDuration == 1440

\* the dashboard's last24h: now - 24 * 60 * 60 * 1000
Last24h == 1440

\* the width of a bucket of the dashboard's timeline: 5 * 60 * 1000
IntervalWidth == 5

\* the first index of the timeline's loop: for (let i = 5; i >= 0; i--)
FirstInterval == 5

Null == <<>>
Num(v) == <<v>>

IPs == {"192.168.1.100", "192.168.1.150"}
TrafficStates == {"normal", "suspicious", "attack", "blocked"}
Topics == {"alerts", "traffic"}
\* table users, as seedUsers fills it: a user is named by its role
Users == {"admin", "analyst", "viewer"}
\* what a handler calls and what may fail under it: the socket.io server and
\* the tables it writes after the sample
Components == {"io", "alerts", "blocked_ips", "audit_logs"}

VARIABLES
    trafficLogs,   \* table traffic_logs: a sequence, the id is the position
    alerts,        \* table alerts
    blockedIPs,    \* table blocked_ips
    auditLogs,     \* table audit_logs
    gone,          \* per table, the ids of the rows that were deleted
    rooms,         \* socket.io rooms: topic -> the connections that joined it
    inbox,         \* per connection, the events delivered to it, in order
    published,     \* the events handed to io.to(room).emit: a bag of
                   \* [topic, event, id]
    down,          \* the components that fail when called: a subset of Components
    req,           \* per request slot, the handler's position and its locals
    now            \* the clock

vars == <<trafficLogs, alerts, blockedIPs, auditLogs, gone, rooms, inbox, published, down, req, now>>

\* ----------------------------------------------------------- JavaScript
\* confidence >= t  for a confidence that may be undefined: undefined >= t is false
Ge(confidence, t) == confidence # Null /\ confidence[1] >= t

\* String.prototype.toLowerCase on the strings the model uses
ToLowerCase(s) ==
    CASE s = "ACTIVE" -> "active"
      [] s = "Active" -> "active"
      [] s = "COMPLETED" -> "completed"
      [] s = "BLOCKED" -> "blocked"
      [] OTHER -> s

\* ------------------------------------------------------------- the store
\* TrafficLog: allowNull false on srcIp, dstIp, protocol; trafficState is an ENUM
TrafficLogAccepted(row) ==
    /\ row.srcIp # ""
    /\ row.dstIp # ""
    /\ row.protocol # ""
    /\ row.trafficState \in TrafficStates

\* mutation of TrafficLogCreate: the insert reuses the last id
TrafficLogCreate_Overwrite(row) ==
    IF trafficLogs = <<>> THEN <<row>>
    ELSE [trafficLogs EXCEPT ![Len(trafficLogs)] = row]

\* Model.create on a table whose primary key is generated: a new row, never
\* an existing one
TrafficLogCreate(row) == Append(trafficLogs, row)

AlertCreate(row) == Append(alerts, row)

\* alerts.traffic_log_id references traffic_logs.id: an insert is accepted
\* when the row it references is in the table
AlertForeignKey(trafficLogId) ==
    trafficLogId \in DOMAIN trafficLogs \ gone["traffic_logs"]

BlockedIPCreate(row) == Append(blockedIPs, row)

\* mutation of BlockedIPUnique: the column without its unique constraint
BlockedIPUnique_Unconstrained(ip) == TRUE

\* BlockedIP.ipAddress is unique: true
BlockedIPUnique(ip) ==
    \A i \in DOMAIN blockedIPs : blockedIPs[i].ipAddress # ip

\* BlockedIP.findOne({ where: { ipAddress, unblockedAt: null } }): the id, or 0
FindActiveBlock(ip) ==
    LET found == {i \in DOMAIN blockedIPs :
                    /\ blockedIPs[i].ipAddress = ip
                    /\ blockedIPs[i].unblockedAt = Null}
    IN  IF found = {} THEN 0 ELSE CHOOSE i \in found : \A j \in found : i <= j

\* mutation of Emit: io.emit, to every connection
Emit_Broadcast(inb, topic, event, id) ==
    [c \in Conns |-> Append(inb[c], [event |-> event, id |-> id])]

\* io.to(topic).emit(event, row): delivered to the connections in the room
Emit(inb, topic, event, id) ==
    [c \in Conns |->
        IF c \in rooms[topic]
        THEN Append(inb[c], [event |-> event, id |-> id])
        ELSE inb[c]]

\* io.to(topic).emit(event, row): the call itself, whoever is in the room
Publish(pub, topic, event, id) ==
    pub (+) SetToBag({[topic |-> topic, event |-> event, id |-> id]})

\* ------------------------------------------------- POST /api/traffic/log
LogTrafficState(state, is_attack) ==
    IF state # ""
    THEN IF ToLowerCase(state) = "active"
         THEN (IF is_attack THEN "attack" ELSE "normal")
         ELSE ToLowerCase(state)
    ELSE (IF is_attack THEN "attack" ELSE "normal")

LogAttackType(predicted_class) ==
    IF predicted_class # "BENIGN" THEN predicted_class ELSE ""

LogTrafficRow(body) ==
    [timestamp       |-> now,
     srcIp           |-> body.src_ip,
     dstIp           |-> body.dst_ip,
     srcPort         |-> body.src_port,
     dstPort         |-> body.dst_port,
     protocol        |-> body.protocol,
     packetSize      |-> body.packet_size,
     isAttack        |-> body.is_attack,
     attackType      |-> LogAttackType(body.predicted_class),
     confidenceScore |-> body.confidence,
     trafficState    |-> LogTrafficState(body.state, body.is_attack)]

\* mutation of LogAlertCond: the attack flag not consulted
LogAlertCond_NoFlag(is_attack, confidence) == Ge(confidence, 5000)

\* mutation of LogAlertCond: the confidence not consulted
LogAlertCond_NoThreshold(is_attack, confidence) == is_attack

LogAlertCond(is_attack, confidence) == is_attack /\ Ge(confidence, 5000)

LogAlertType(confidence) == IF Ge(confidence, 8000) THEN "CRITICAL" ELSE "HIGH"

\* mutation of LogSeverity: the top threshold exclusive
LogSeverity_Exclusive(confidence) ==
    IF confidence # Null /\ confidence[1] > 9000 THEN 5
    ELSE (IF Ge(confidence, 7000) THEN 4 ELSE 3)

LogSeverity(confidence) ==
    IF Ge(confidence, 9000) THEN 5 ELSE (IF Ge(confidence, 7000) THEN 4 ELSE 3)

LogBlockCond(confidence) == Ge(confidence, 7000)

LogAlertRow(id, body) ==
    [trafficLogId    |-> id,
     alertType       |-> LogAlertType(body.confidence),
     severity        |-> LogSeverity(body.confidence),
     attackCategory  |-> body.predicted_class,
     status          |-> "open",
     assignedTo      |-> "",
     resolvedAt      |-> Null,
     resolutionNotes |-> "",
     autoBlocked     |-> FALSE]

\* mutation of LogBlockRow: the duration of one hour
LogBlockRow_OneHour(body, user) ==
    [ipAddress   |-> body.src_ip,
     blockedBy   |-> user,
     blockType   |-> "temporary",
     blockedAt   |-> now,
     expiresAt   |-> now + 60,
     unblockedAt |-> Null]

LogBlockRow(body, user) ==
    [ipAddress   |-> body.src_ip,
     blockedBy   |-> user,
     blockType   |-> "temporary",
     blockedAt   |-> now,
     expiresAt   |-> now + BlockDuration,
     unblockedAt |-> Null]

\* A request slot: the handler's position (pc), the request (path, user, body),
\* the handler's locals (prediction, trafficLogId, alertId, existingBlock:
\* Null before findOne, then the id found or 0; alert: the Alert instance
\* findByPk gave, Null before; traffic: the TrafficLog instance findByPk
\* gave; at, i, total, attacks, stats, trafficTimeline, attackDistribution: the now,
\* loop index, bucket total and results of the dashboard's overview), the error its catch caught (error) and the
\* response (res, and sent: the row in its body).
\* alertsRoomAtStart, alertAtStart and queried are history fields: the
\* 'alerts' room and the alert the request names when the request arrived,
\* and the intervals the overview has counted.
IdleReq ==
    [pc |-> "idle", path |-> "", user |-> "", body |-> Null, prediction |-> Null,
     trafficLogId |-> 0, alertId |-> 0, existingBlock |-> Null, alert |-> Null,
     traffic |-> Null, at |-> 0, i |-> 0, total |-> 0, attacks |-> 0, stats |-> Null,
     trafficTimeline |-> <<>>, attackDistribution |-> {}, queried |-> <<>>,
     error |-> "", res |-> "", sent |-> Null,
     alertsRoomAtStart |-> {}, alertAtStart |-> Null]

\* the handler of slot r moves to pc with its locals changed
Goto(r, pc, changes) ==
    req' = [req EXCEPT ![r] =
              [f \in DOMAIN req[r] |->
                 IF f = "pc" THEN pc
                 ELSE IF f \in DOMAIN changes THEN changes[f] ELSE req[r][f]]]

\* mutation of LogCatch: the error swallowed
LogCatch_Silent(r, error) == Goto(r, "done", [res |-> "success", error |-> error])

\* the catch of the /log handler: res.status(500).json({ error: 'LogError', ... })
LogCatch(r, error) == Goto(r, "done", [res |-> "LogError", error |-> error])

\* the tail of the /log handler: new_alert if an alert was created, new_traffic,
\* res.json({ success: true, ... }); an emit that throws is caught by the
\* handler's catch
LogPublish(r) ==
    IF "io" \in down
    THEN /\ UNCHANGED <<inbox, published>>
         /\ LogCatch(r, "EmitError")
    ELSE /\ inbox' = Emit(IF req[r].alertId # 0
                          THEN Emit(inbox, "alerts", "new_alert", req[r].alertId)
                          ELSE inbox,
                          "traffic", "new_traffic", req[r].trafficLogId)
         /\ published' = Publish(IF req[r].alertId # 0
                                 THEN Publish(published, "alerts", "new_alert", req[r].alertId)
                                 ELSE published,
                                 "traffic", "new_traffic", req[r].trafficLogId)
         /\ Goto(r, "done", [res |-> "success"])

\* authenticate, then TrafficLog.create
LogReceive(r, user, body) ==
    /\ req[r].pc = "idle"
    /\ UNCHANGED <<gone, auditLogs, down, alerts, blockedIPs, rooms, inbox, published, now>>
    /\ IF user = ""
       THEN /\ Goto(r, "done", [path |-> "log", user |-> user, body |-> body,
                     alertsRoomAtStart |-> rooms["alerts"],
                                res |-> "Unauthorized"])
            /\ UNCHANGED trafficLogs
       ELSE IF TrafficLogAccepted(LogTrafficRow(body))
       THEN /\ trafficLogs' = TrafficLogCreate(LogTrafficRow(body))
            /\ Goto(r, "log_created", [path |-> "log", user |-> user, body |-> body,
                     alertsRoomAtStart |-> rooms["alerts"],
                                       trafficLogId |-> Len(trafficLogs) + 1])
       ELSE /\ Goto(r, "done", [path |-> "log", user |-> user, body |-> body,
                     alertsRoomAtStart |-> rooms["alerts"],
                                res |-> "LogError", error |-> "ValidationError"])
            /\ UNCHANGED trafficLogs

\* after TrafficLog.create: the alert condition, then Alert.create
LogAfterTraffic(r) ==
    /\ req[r].pc = "log_created"
    /\ UNCHANGED <<gone, auditLogs, down, trafficLogs, blockedIPs, rooms, now>>
    /\ IF LogAlertCond(req[r].body.is_attack, req[r].body.confidence)
       THEN /\ UNCHANGED <<inbox, published>>
            /\ IF "alerts" \in down
               THEN /\ LogCatch(r, "DatabaseError")
                    /\ UNCHANGED alerts
               ELSE IF ~AlertForeignKey(req[r].trafficLogId)
               THEN /\ LogCatch(r, "ForeignKeyConstraintError")
                    /\ UNCHANGED alerts
               ELSE /\ alerts' = AlertCreate(LogAlertRow(req[r].trafficLogId, req[r].body))
                    /\ Goto(r, "log_alerted", [alertId |-> Len(alerts) + 1])
       ELSE /\ LogPublish(r)
            /\ UNCHANGED alerts

\* after Alert.create: the auto-block condition, then BlockedIP.findOne
LogAfterAlert(r) ==
    /\ req[r].pc = "log_alerted"
    /\ UNCHANGED <<gone, auditLogs, down, trafficLogs, alerts, blockedIPs, rooms, now>>
    /\ IF LogBlockCond(req[r].body.confidence)
       THEN /\ UNCHANGED <<inbox, published>>
            /\ IF "blocked_ips" \in down
               THEN LogCatch(r, "DatabaseError")
               ELSE Goto(r, "log_looked",
                         [existingBlock |-> Num(FindActiveBlock(req[r].body.src_ip))])
       ELSE LogPublish(r)

\* after BlockedIP.findOne: BlockedIP.create unless a block was found
LogAfterFind(r) ==
    /\ req[r].pc = "log_looked"
    /\ UNCHANGED <<gone, auditLogs, down, trafficLogs, alerts, rooms, now>>
    /\ IF req[r].existingBlock = Num(0)
       THEN /\ UNCHANGED <<inbox, published>>
            /\ IF "blocked_ips" \in down
               THEN /\ UNCHANGED blockedIPs
                    /\ LogCatch(r, "DatabaseError")
               ELSE IF BlockedIPUnique(req[r].body.src_ip)
               THEN /\ blockedIPs' = BlockedIPCreate(LogBlockRow(req[r].body, req[r].user))
                    /\ Goto(r, "log_blocked", <<>>)
               ELSE \* SequelizeUniqueConstraintError, caught by the handler's catch
                    /\ UNCHANGED blockedIPs
                    /\ LogCatch(r, "UniqueConstraintError")
       ELSE /\ LogPublish(r)
            /\ UNCHANGED blockedIPs

\* after BlockedIP.create
LogAfterBlock(r) ==
    /\ req[r].pc = "log_blocked"
    /\ UNCHANGED <<gone, auditLogs, down, trafficLogs, alerts, blockedIPs, rooms, now>>
    /\ LogPublish(r)

\* --------------------------------------------- POST /api/traffic/analyze
AnalyzeTrafficState(is_attack) == IF is_attack THEN "attack" ELSE "normal"

AnalyzeAttackType(attack_type) == attack_type

\* { ...trafficData, isAttack, attackType, confidenceScore, anomalyScore, trafficState }
AnalyzeTrafficRow(body, prediction) ==
    [timestamp       |-> now,
     srcIp           |-> body.srcIp,
     dstIp           |-> body.dstIp,
     srcPort         |-> body.srcPort,
     dstPort         |-> body.dstPort,
     protocol        |-> body.protocol,
     packetSize      |-> body.packetSize,
     isAttack        |-> prediction.is_attack,
     attackType      |-> AnalyzeAttackType(prediction.attack_type),
     confidenceScore |-> prediction.confidence,
     trafficState    |-> AnalyzeTrafficState(prediction.is_attack)]

\* mutation of AnalyzeAlertCond: the threshold of the /log path
AnalyzeAlertCond_LogThreshold(is_attack, confidence) ==
    is_attack /\ Ge(confidence, 5000)

AnalyzeAlertCond(is_attack, confidence) == is_attack /\ Ge(confidence, 8500)

AnalyzeSeverity(confidence) == IF Ge(confidence, 9500) THEN 5 ELSE 4

AnalyzeAlertRow(id, prediction) ==
    [trafficLogId    |-> id,
     alertType       |-> "HIGH",
     severity        |-> AnalyzeSeverity(prediction.confidence),
     attackCategory  |-> prediction.attack_type,
     status          |-> "open",
     assignedTo      |-> "",
     resolvedAt      |-> Null,
     resolutionNotes |-> "",
     autoBlocked     |-> FALSE]

\* mutation of Authorize: every role allowed
Authorize_Anyone(user, allowedRoles) == TRUE

\* authorize(...allowedRoles)
Authorize(user, allowedRoles) == user \in allowedRoles

\* the tail of the /analyze handler: new_alert if an alert was created,
\* new_traffic, res.json({ trafficLog, prediction })
AnalyzePublish(r) ==
    IF "io" \in down
    THEN /\ UNCHANGED <<inbox, published>>
         /\ Goto(r, "done", [res |-> "AnalysisError", error |-> "EmitError"])
    ELSE /\ inbox' = Emit(IF req[r].alertId # 0
                          THEN Emit(inbox, "alerts", "new_alert", req[r].alertId)
                          ELSE inbox,
                          "traffic", "new_traffic", req[r].trafficLogId)
         /\ published' = Publish(IF req[r].alertId # 0
                                 THEN Publish(published, "alerts", "new_alert", req[r].alertId)
                                 ELSE published,
                                 "traffic", "new_traffic", req[r].trafficLogId)
         /\ Goto(r, "done", [res |-> "success"])

\* authenticate, authorize('admin', 'analyst'), then the call of the classifier
AnalyzeReceive(r, user, body) ==
    /\ req[r].pc = "idle"
    /\ UNCHANGED <<gone, auditLogs, down, trafficLogs, alerts, blockedIPs, rooms, inbox, published, now>>
    /\ IF user = ""
       THEN Goto(r, "done", [path |-> "analyze", user |-> user, body |-> body,
                  alertsRoomAtStart |-> rooms["alerts"],
                             res |-> "Unauthorized"])
       ELSE IF ~Authorize(user, {"admin", "analyst"})
       THEN Goto(r, "done", [path |-> "analyze", user |-> user, body |-> body,
                  alertsRoomAtStart |-> rooms["alerts"],
                             res |-> "Forbidden"])
       ELSE Goto(r, "an_called", [path |-> "analyze", user |-> user, body |-> body,
                  alertsRoomAtStart |-> rooms["alerts"]])

\* mutation of AnalyzeAfterPredict: a failed call of the classifier persists
\* the sample unclassified
AnalyzeAfterPredict_PersistOnFailure(r, prediction) ==
    /\ req[r].pc = "an_called"
    /\ prediction = Null
    /\ UNCHANGED <<gone, auditLogs, down, alerts, blockedIPs, rooms, inbox, published, now>>
    /\ trafficLogs' = TrafficLogCreate(
           [timestamp |-> now, srcIp |-> req[r].body.srcIp, dstIp |-> req[r].body.dstIp,
            srcPort |-> req[r].body.srcPort, dstPort |-> req[r].body.dstPort,
            protocol |-> req[r].body.protocol, packetSize |-> req[r].body.packetSize,
            isAttack |-> FALSE, attackType |-> "", confidenceScore |-> Null,
            trafficState |-> "normal"])
    /\ Goto(r, "done", [res |-> "AnalysisError", error |-> "ClassifierError"])

\* the classifier answered with a prediction, or the call failed (Null);
\* on an answer, TrafficLog.create
AnalyzeAfterPredict(r, prediction) ==
    /\ req[r].pc = "an_called"
    /\ UNCHANGED <<gone, auditLogs, down, alerts, blockedIPs, rooms, inbox, published, now>>
    /\ IF prediction = Null
       THEN /\ Goto(r, "done", [res |-> "AnalysisError", error |-> "ClassifierError"])
            /\ UNCHANGED trafficLogs
       ELSE IF TrafficLogAccepted(AnalyzeTrafficRow(req[r].body, prediction))
       THEN /\ trafficLogs' = TrafficLogCreate(AnalyzeTrafficRow(req[r].body, prediction))
            /\ Goto(r, "an_created", [prediction |-> prediction,
                                      trafficLogId |-> Len(trafficLogs) + 1])
       ELSE /\ Goto(r, "done", [prediction |-> prediction, res |-> "AnalysisError",
                        error |-> "ValidationError"])
            /\ UNCHANGED trafficLogs

\* after TrafficLog.create: the alert condition, then Alert.create
AnalyzeAfterTraffic(r) ==
    /\ req[r].pc = "an_created"
    /\ UNCHANGED <<gone, auditLogs, down, trafficLogs, blockedIPs, rooms, now>>
    /\ IF AnalyzeAlertCond(req[r].prediction.is_attack, req[r].prediction.confidence)
       THEN /\ UNCHANGED <<inbox, published>>
            /\ IF "alerts" \in down
               THEN /\ Goto(r, "done", [res |-> "AnalysisError", error |-> "DatabaseError"])
                    /\ UNCHANGED alerts
               ELSE IF ~AlertForeignKey(req[r].trafficLogId)
               THEN /\ Goto(r, "done", [res |-> "AnalysisError",
                                        error |-> "ForeignKeyConstraintError"])
                    /\ UNCHANGED alerts
               ELSE /\ alerts' = AlertCreate(AnalyzeAlertRow(req[r].trafficLogId,
                                                             req[r].prediction))
                    /\ Goto(r, "an_alerted", [alertId |-> Len(alerts) + 1])
       ELSE /\ AnalyzePublish(r)
            /\ UNCHANGED alerts

\* after Alert.create
AnalyzeAfterAlert(r) ==
    /\ req[r].pc = "an_alerted"
    /\ UNCHANGED <<gone, auditLogs, down, trafficLogs, alerts, blockedIPs, rooms, now>>
    /\ AnalyzePublish(r)

\* ------------------------------------------------------------ /api/alerts
\* Alert.findByPk(id): the instance, or Null
FindByPk(id) ==
    IF id \in DOMAIN alerts \ gone["alerts"] THEN <<alerts[id]>> ELSE Null

\* instance.set(values): the row with the given columns replaced
Set(row, values) ==
    [f \in DOMAIN row |-> IF f \in DOMAIN values THEN values[f] ELSE row[f]]

\* instance.update(values): UPDATE alerts SET the given columns WHERE id
AlertUpdate(id, values) ==
    IF id \in DOMAIN alerts \ gone["alerts"]
    THEN [alerts EXCEPT ![id] = Set(alerts[id], values)]
    ELSE alerts

\* mutation of ResolveValues: resolvedAt not written
ResolveValues_NoTimestamp(resolutionNotes) ==
    [status |-> "resolved", resolutionNotes |-> resolutionNotes]

\* { status: 'resolved', resolvedAt: new Date(), resolutionNotes }
ResolveValues(resolutionNotes) ==
    [status |-> "resolved", resolvedAt |-> Num(now), resolutionNotes |-> resolutionNotes]

\* PATCH /:id/resolve: authenticate, authorize('admin', 'analyst'), then
\* Alert.findByPk
ResolveReceive(r, user, id, resolutionNotes) ==
    /\ req[r].pc = "idle"
    /\ UNCHANGED <<gone, trafficLogs, alerts, blockedIPs, auditLogs, rooms, inbox,
                   published, down, now>>
    /\ LET request == [path |-> "resolve", user |-> user,
                       body |-> [id |-> id, resolutionNotes |-> resolutionNotes]]
       IN  IF user = ""
           THEN Goto(r, "done", request @@ [res |-> "Unauthorized"])
           ELSE IF ~Authorize(user, {"admin", "analyst"})
           THEN Goto(r, "done", request @@ [res |-> "Forbidden"])
           ELSE IF "alerts" \in down
           THEN Goto(r, "done", request @@ [alertAtStart |-> FindByPk(id),
                                            res |-> "ResolveError",
                                            error |-> "DatabaseError"])
           ELSE Goto(r, "rs_found", request @@ [alertAtStart |-> FindByPk(id),
                                                alert |-> FindByPk(id)])

\* after findByPk: 404 if there is no such alert, else alert.update
ResolveAfterFind(r) ==
    /\ req[r].pc = "rs_found"
    /\ UNCHANGED <<gone, trafficLogs, blockedIPs, auditLogs, rooms, inbox, published, down, now>>
    /\ IF req[r].alert = Null
       THEN /\ Goto(r, "done", [res |-> "NotFound"])
            /\ UNCHANGED alerts
       ELSE IF "alerts" \in down
       THEN /\ Goto(r, "done", [res |-> "ResolveError", error |-> "DatabaseError"])
            /\ UNCHANGED alerts
       ELSE /\ alerts' = AlertUpdate(req[r].body.id,
                                     ResolveValues(req[r].body.resolutionNotes))
            /\ Goto(r, "rs_updated",
                    [alert |-> <<Set(req[r].alert[1],
                                     ResolveValues(req[r].body.resolutionNotes))>>])

\* after alert.update: AuditLog.create; when it throws, the catch answers
\* ResolveError
ResolveAfterUpdate(r) ==
    /\ req[r].pc = "rs_updated"
    /\ UNCHANGED <<gone, trafficLogs, alerts, blockedIPs, rooms, inbox, published, down, now>>
    /\ IF "audit_logs" \in down
       THEN /\ Goto(r, "done", [res |-> "ResolveError", error |-> "DatabaseError"])
            /\ UNCHANGED auditLogs
       ELSE /\ auditLogs' = Append(auditLogs,
                                   [eventType |-> "ALERT_RESOLVED", userId |-> req[r].user,
                                    resourceType |-> "alert",
                                    resourceId |-> req[r].body.id])
            /\ Goto(r, "rs_audited", <<>>)

\* after AuditLog.create: res.json(alert)
ResolveAfterAudit(r) ==
    /\ req[r].pc = "rs_audited"
    /\ UNCHANGED <<gone, trafficLogs, alerts, blockedIPs, auditLogs, rooms, inbox,
                   published, down, now>>
    /\ Goto(r, "done", [res |-> "success", sent |-> req[r].alert])

\* { assignedTo: userId, status: 'investigating' }
AssignValues(userId) == [assignedTo |-> userId, status |-> "investigating"]

\* PATCH /:id/assign: authenticate, authorize('admin', 'analyst'), then
\* Alert.findByPk
AssignReceive(r, user, id, userId) ==
    /\ req[r].pc = "idle"
    /\ UNCHANGED <<gone, trafficLogs, alerts, blockedIPs, auditLogs, rooms, inbox,
                   published, down, now>>
    /\ LET request == [path |-> "assign", user |-> user,
                       body |-> [id |-> id, userId |-> userId]]
       IN  IF user = ""
           THEN Goto(r, "done", request @@ [res |-> "Unauthorized"])
           ELSE IF ~Authorize(user, {"admin", "analyst"})
           THEN Goto(r, "done", request @@ [res |-> "Forbidden"])
           ELSE IF "alerts" \in down
           THEN Goto(r, "done", request @@ [alertAtStart |-> FindByPk(id),
                                            res |-> "AssignError",
                                            error |-> "DatabaseError"])
           ELSE Goto(r, "as_found", request @@ [alertAtStart |-> FindByPk(id),
                                                alert |-> FindByPk(id)])

\* after findByPk: 404 if there is no such alert, else alert.update, which
\* the store rejects when assigned_to references no user
AssignAfterFind(r) ==
    /\ req[r].pc = "as_found"
    /\ UNCHANGED <<gone, trafficLogs, blockedIPs, auditLogs, rooms, inbox, published, down, now>>
    /\ IF req[r].alert = Null
       THEN /\ Goto(r, "done", [res |-> "NotFound"])
            /\ UNCHANGED alerts
       ELSE IF "alerts" \in down
       THEN /\ Goto(r, "done", [res |-> "AssignError", error |-> "DatabaseError"])
            /\ UNCHANGED alerts
       ELSE IF req[r].body.userId \notin Users
       THEN /\ Goto(r, "done", [res |-> "AssignError",
                                error |-> "ForeignKeyConstraintError"])
            /\ UNCHANGED alerts
       ELSE /\ alerts' = AlertUpdate(req[r].body.id, AssignValues(req[r].body.userId))
            /\ Goto(r, "as_updated",
                    [alert |-> <<Set(req[r].alert[1], AssignValues(req[r].body.userId))>>])

\* after alert.update: AuditLog.create; when it throws, the catch answers
\* AssignError
AssignAfterUpdate(r) ==
    /\ req[r].pc = "as_updated"
    /\ UNCHANGED <<gone, trafficLogs, alerts, blockedIPs, rooms, inbox, published, down, now>>
    /\ IF "audit_logs" \in down
       THEN /\ Goto(r, "done", [res |-> "AssignError", error |-> "DatabaseError"])
            /\ UNCHANGED auditLogs
       ELSE /\ auditLogs' = Append(auditLogs,
                                   [eventType |-> "ALERT_ASSIGNED", userId |-> req[r].user,
                                    resourceType |-> "alert",
                                    resourceId |-> req[r].body.id])
            /\ Goto(r, "as_audited", <<>>)

\* after AuditLog.create: Alert.findByPk again
AssignAfterAudit(r) ==
    /\ req[r].pc = "as_audited"
    /\ UNCHANGED <<gone, trafficLogs, alerts, blockedIPs, auditLogs, rooms, inbox,
                   published, down, now>>
    /\ IF "alerts" \in down
       THEN Goto(r, "done", [res |-> "AssignError", error |-> "DatabaseError"])
       ELSE Goto(r, "as_reread", [alert |-> FindByPk(req[r].body.id)])

\* after the second findByPk: res.json(updatedAlert)
AssignAfterReread(r) ==
    /\ req[r].pc = "as_reread"
    /\ UNCHANGED <<gone, trafficLogs, alerts, blockedIPs, auditLogs, rooms, inbox,
                   published, down, now>>
    /\ Goto(r, "done", [res |-> "success", sent |-> req[r].alert])

\* GET /:id: authenticate, then Alert.findByPk
GetReceive(r, user, id) ==
    /\ req[r].pc = "idle"
    /\ UNCHANGED <<gone, trafficLogs, alerts, blockedIPs, auditLogs, rooms, inbox,
                   published, down, now>>
    /\ LET request == [path |-> "get", user |-> user, body |-> [id |-> id]]
       IN  IF user = ""
           THEN Goto(r, "done", request @@ [res |-> "Unauthorized"])
           ELSE Goto(r, "get_found", request @@ [alert |-> FindByPk(id)])

\* after findByPk: 404 if there is no such alert, else res.json(alert)
GetAfterFind(r) ==
    /\ req[r].pc = "get_found"
    /\ UNCHANGED <<gone, trafficLogs, alerts, blockedIPs, auditLogs, rooms, inbox,
                   published, down, now>>
    /\ IF req[r].alert = Null
       THEN Goto(r, "done", [res |-> "NotFound"])
       ELSE Goto(r, "done", [res |-> "success", sent |-> req[r].alert])

\* ------------------------------------------------------------- socket.io
\* socket.on('subscribe_alerts', () => socket.join('alerts'))
\* ------------------------------------------------- DELETE /api/traffic/:id
\* TrafficLog.findByPk(id): the instance, or Null
TrafficFindByPk(id) ==
    IF id \in DOMAIN trafficLogs \ gone["traffic_logs"] THEN <<trafficLogs[id]>> ELSE Null

\* mutation of TrafficLogDestroy: the alerts of the row stay
TrafficLogDestroy_KeepAlerts(id) == [gone EXCEPT !["traffic_logs"] = @ \cup {id}]

\* traffic.destroy(): DELETE FROM traffic_logs WHERE id. The foreign key of
\* alerts is made by TrafficLog.hasMany over an attribute that does not
\* declare allowNull, which gives it ON DELETE CASCADE: the alerts of the
\* row are deleted with it.
TrafficLogDestroy(id) ==
    [gone EXCEPT !["traffic_logs"] = @ \cup {id},
                 !["alerts"] = @ \cup {i \in DOMAIN alerts : alerts[i].trafficLogId = id}]

\* authenticate, authorize('admin'), then TrafficLog.findByPk
DeleteReceive(r, user, id) ==
    /\ req[r].pc = "idle"
    /\ UNCHANGED <<gone, trafficLogs, alerts, blockedIPs, auditLogs, rooms, inbox,
                   published, down, now>>
    /\ LET request == [path |-> "delete", user |-> user, body |-> [id |-> id]]
       IN  IF user = ""
           THEN Goto(r, "done", request @@ [res |-> "Unauthorized"])
           ELSE IF ~Authorize(user, {"admin"})
           THEN Goto(r, "done", request @@ [res |-> "Forbidden"])
           ELSE Goto(r, "dl_found", request @@ [traffic |-> TrafficFindByPk(id)])

\* after findByPk: 404 if there is no such row, else traffic.destroy()
DeleteAfterFind(r) ==
    /\ req[r].pc = "dl_found"
    /\ UNCHANGED <<trafficLogs, alerts, blockedIPs, auditLogs, rooms, inbox, published,
                   down, now>>
    /\ IF req[r].traffic = Null
       THEN /\ Goto(r, "done", [res |-> "NotFound"])
            /\ UNCHANGED gone
       ELSE /\ gone' = TrafficLogDestroy(req[r].body.id)
            /\ Goto(r, "dl_destroyed", <<>>)

\* after destroy: res.json({ message: 'Traffic log deleted successfully' })
DeleteAfterDestroy(r) ==
    /\ req[r].pc = "dl_destroyed"
    /\ UNCHANGED <<gone, trafficLogs, alerts, blockedIPs, auditLogs, rooms, inbox,
                   published, down, now>>
    /\ Goto(r, "done", [res |-> "success"])

\* ------------------------------------------------ /api/dashboard/overview
\* TrafficLog.count({ where: { timestamp: { [Op.gte]: from } [, isAttack: true] } })
TrafficCountSince(from, attacksOnly) ==
    Cardinality({k \in DOMAIN trafficLogs \ gone["traffic_logs"] :
                   /\ trafficLogs[k].timestamp >= from
                   /\ attacksOnly => trafficLogs[k].isAttack})

\* Op.between: t BETWEEN lo AND hi, both ends included
Between(t, lo, hi) == lo <= t /\ t <= hi

\* TrafficLog.count({ where: { timestamp: { [Op.between]: [lo, hi] } [, isAttack: true] } })
TrafficCountBetween(lo, hi, attacksOnly) ==
    Cardinality({k \in DOMAIN trafficLogs \ gone["traffic_logs"] :
                   /\ Between(trafficLogs[k].timestamp, lo, hi)
                   /\ attacksOnly => trafficLogs[k].isAttack})

\* new Date(now - i * 5 * 60 * 1000)
IntervalStart(at, i) == at - i * IntervalWidth

\* new Date(now - (i - 1) * 5 * 60 * 1000)
IntervalEnd(at, i) == at - (i - 1) * IntervalWidth

\* the HH:MM of a time: its hours and minutes
TimeLabel(t) == <<(t \div 60) % 24, t % 60>>

\* the attack types of the last day with the number of attacks of each
AttackTypes(from) ==
    LET rows == {k \in DOMAIN trafficLogs \ gone["traffic_logs"] :
                   trafficLogs[k].isAttack /\ trafficLogs[k].timestamp >= from}
    IN  {[name  |-> IF trafficLogs[k].attackType = "" THEN "Unknown"
                    ELSE trafficLogs[k].attackType,
          value |-> Cardinality({j \in rows :
                                   trafficLogs[j].attackType = trafficLogs[k].attackType})] :
         k \in rows}

\* authenticate, now = new Date(), then the count of the samples of the last day
OverviewReceive(r, user) ==
    /\ req[r].pc = "idle"
    /\ UNCHANGED <<gone, trafficLogs, alerts, blockedIPs, auditLogs, rooms, inbox,
                   published, down, now>>
    /\ LET request == [path |-> "overview", user |-> user]
       IN  IF user = ""
           THEN Goto(r, "done", request @@ [res |-> "Unauthorized"])
           ELSE Goto(r, "ov_total",
                     request @@ [at |-> now,
                                 stats |-> [total |-> TrafficCountSince(now - Last24h, FALSE)]])

\* after the total: the count of the attacks of the last day
OverviewAfterTotal(r) ==
    /\ req[r].pc = "ov_total"
    /\ UNCHANGED <<gone, trafficLogs, alerts, blockedIPs, auditLogs, rooms, inbox,
                   published, down, now>>
    /\ Goto(r, "ov_attacks",
            [stats |-> req[r].stats @@
                       [attacks |-> TrafficCountSince(req[r].at - Last24h, TRUE)]])

\* after the attacks: the count of the open alerts
OverviewAfterAttacks(r) ==
    /\ req[r].pc = "ov_attacks"
    /\ UNCHANGED <<gone, trafficLogs, alerts, blockedIPs, auditLogs, rooms, inbox,
                   published, down, now>>
    /\ Goto(r, "ov_open",
            [stats |-> req[r].stats @@
                       [open |-> Cardinality({k \in DOMAIN alerts \ gone["alerts"] :
                                                alerts[k].status = "open"})]])

\* after the open alerts: the count of the critical alerts not resolved
OverviewAfterOpen(r) ==
    /\ req[r].pc = "ov_open"
    /\ UNCHANGED <<gone, trafficLogs, alerts, blockedIPs, auditLogs, rooms, inbox,
                   published, down, now>>
    /\ Goto(r, "ov_critical",
            [stats |-> req[r].stats @@
                       [critical |-> Cardinality({k \in DOMAIN alerts \ gone["alerts"] :
                                                    /\ alerts[k].severity = 5
                                                    /\ alerts[k].status # "resolved"})]])

\* after the critical alerts: the count of the active blocks
OverviewAfterCritical(r) ==
    /\ req[r].pc = "ov_critical"
    /\ UNCHANGED <<gone, trafficLogs, alerts, blockedIPs, auditLogs, rooms, inbox,
                   published, down, now>>
    /\ Goto(r, "ov_blocked",
            [stats |-> req[r].stats @@
                       [blocked |-> Cardinality({k \in DOMAIN blockedIPs :
                                                   blockedIPs[k].unblockedAt = Null})]])

\* after the active blocks: the loop starts, with the total of its first
\* interval
OverviewAfterBlocked(r) ==
    /\ req[r].pc = "ov_blocked"
    /\ UNCHANGED <<gone, trafficLogs, alerts, blockedIPs, auditLogs, rooms, inbox,
                   published, down, now>>
    /\ Goto(r, "ov_interval_total",
            [i |-> FirstInterval,
             total |-> TrafficCountBetween(IntervalStart(req[r].at, FirstInterval),
                                           IntervalEnd(req[r].at, FirstInterval), FALSE),
             queried |-> Append(req[r].queried,
                                <<IntervalStart(req[r].at, FirstInterval),
                                  IntervalEnd(req[r].at, FirstInterval)>>)])

\* after the total of an interval: the attacks of the interval
OverviewAfterIntervalTotal(r) ==
    /\ req[r].pc = "ov_interval_total"
    /\ UNCHANGED <<gone, trafficLogs, alerts, blockedIPs, auditLogs, rooms, inbox,
                   published, down, now>>
    /\ Goto(r, "ov_interval_attacks",
            [attacks |-> TrafficCountBetween(IntervalStart(req[r].at, req[r].i),
                                             IntervalEnd(req[r].at, req[r].i), TRUE)])

\* trafficTimeline.push({ time: timeLabel, normal: total - attacks, attacks })
TimelinePush(q) ==
    Append(q.trafficTimeline,
           [time    |-> TimeLabel(IntervalStart(q.at, q.i)),
            normal  |-> q.total - q.attacks,
            attacks |-> q.attacks])

\* after the attacks of an interval: trafficTimeline.push, then the next
\* interval, or after the last one the attack types
OverviewAfterIntervalAttacks(r) ==
    /\ req[r].pc = "ov_interval_attacks"
    /\ UNCHANGED <<gone, trafficLogs, alerts, blockedIPs, auditLogs, rooms, inbox,
                   published, down, now>>
    /\ IF req[r].i > 0
       THEN Goto(r, "ov_interval_total",
                 [trafficTimeline |-> TimelinePush(req[r]),
                  i |-> req[r].i - 1,
                  total |-> TrafficCountBetween(IntervalStart(req[r].at, req[r].i - 1),
                                                IntervalEnd(req[r].at, req[r].i - 1), FALSE),
                  queried |-> Append(req[r].queried,
                                     <<IntervalStart(req[r].at, req[r].i - 1),
                                       IntervalEnd(req[r].at, req[r].i - 1)>>)])
       ELSE Goto(r, "ov_types", [trafficTimeline |-> TimelinePush(req[r]),
                                 attackDistribution |-> AttackTypes(req[r].at - Last24h)])

\* after the attack types: res.json({ ...stats, trafficTimeline, attackDistribution })
OverviewAfterTypes(r) ==
    /\ req[r].pc = "ov_types"
    /\ UNCHANGED <<gone, trafficLogs, alerts, blockedIPs, auditLogs, rooms, inbox,
                   published, down, now>>
    /\ Goto(r, "done",
            [res |-> "success",
             sent |-> <<[stats |-> req[r].stats,
                         trafficTimeline |-> req[r].trafficTimeline,
                         attackDistribution |-> req[r].attackDistribution]>>])

\* ------------------------------------------------------------- socket.io
SubscribeAlerts(c) ==
    /\ rooms' = [rooms EXCEPT !["alerts"] = @ \cup {c}]
    /\ UNCHANGED <<gone, auditLogs, down, trafficLogs, alerts, blockedIPs, inbox, published, req, now>>

\* socket.on('subscribe_traffic', () => socket.join('traffic'))
SubscribeTraffic(c) ==
    /\ rooms' = [rooms EXCEPT !["traffic"] = @ \cup {c}]
    /\ UNCHANGED <<gone, auditLogs, down, trafficLogs, alerts, blockedIPs, inbox, published, req, now>>

\* ---------------------------------------------------------------- faults
\* a component starts to fail: its calls throw
Fail(c) ==
    /\ c \notin down
    /\ down' = down \cup {c}
    /\ UNCHANGED <<gone, auditLogs, trafficLogs, alerts, blockedIPs, rooms, inbox, published, req, now>>

\* a component works again
Recover(c) ==
    /\ c \in down
    /\ down' = down \ {c}
    /\ UNCHANGED <<gone, auditLogs, trafficLogs, alerts, blockedIPs, rooms, inbox, published, req, now>>

\* ------------------------------------------------------------- the clock
Tick ==
    /\ now < MaxTime
    /\ now' = now + 1
    /\ UNCHANGED <<gone, auditLogs, down, trafficLogs, alerts, blockedIPs, rooms, inbox, published, req>>

\* ---------------------------------------------------------------- inputs
LogBody(ip, is_attack, predicted_class, confidence, state) ==
    [src_ip |-> ip, dst_ip |-> "192.168.1.1", src_port |-> Num(54321),
     dst_port |-> Num(80), protocol |-> "TCP", packet_size |-> Num(1500),
     is_attack |-> is_attack, predicted_class |-> predicted_class,
     confidence |-> confidence, state |-> state]

AnalyzeBody(ip) ==
    [srcIp |-> ip, dstIp |-> "192.168.1.1", srcPort |-> Num(54321),
     dstPort |-> Num(80), protocol |-> "TCP", packetSize |-> Num(1500)]

\* the fields of the sample itself in the body of POST /log
SampleFields == {"src_ip", "dst_ip", "src_port", "dst_port", "protocol", "packet_size"}

\* an absent field: destructuring gives undefined
Absent(f) == IF f \in {"src_ip", "dst_ip", "protocol"} THEN "" ELSE Null

\* a body without one of its fields
Omit(body, f) == [body EXCEPT ![f] = Absent(f)]

\* absent, and both sides of every threshold of the /log policy
LogConfidences ==
    {Null} \cup {Num(v) : v \in {4999, 5000, 6999, 7000, 7999, 8000, 8999, 9000, 10000}}

\* confidences that are no probability
OutOfRange == {Num(-1000), Num(15000)}

States == {"", "ACTIVE", "COMPLETED", "blocked"}
Classes == {"DDoS", "BENIGN"}

\* The requests of the concurrent pipeline: attacks above the block threshold
\* from either address, by any slot.
LogInputs ==
    {[user |-> "admin", body |-> LogBody("192.168.1.100", TRUE, "DDoS", Num(9500), "ACTIVE")],
     [user |-> "admin", body |-> LogBody("192.168.1.150", TRUE, "PortScan", Num(7000), "")]}

\* The sweep of the input space of /log by the first slot; the second slot
\* runs a request beside it, and the others stay idle.
SweepLogInputs(r) ==
    IF r = 1
    THEN {[user |-> "analyst", body |-> LogBody(ip, a, "DDoS", c, "ACTIVE")] :
            ip \in IPs, a \in BOOLEAN, c \in LogConfidences}
         \cup
         {[user |-> "analyst", body |-> LogBody("192.168.1.100", a, cl, Num(5900), st)] :
            a \in BOOLEAN, cl \in Classes, st \in States}
         \cup
         {[user |-> u, body |-> LogBody("192.168.1.100", TRUE, "DDoS", Num(9500), "ACTIVE")] :
            u \in {"", "viewer"}}
         \cup
         {[user |-> "analyst", body |-> LogBody("192.168.1.100", a, "DDoS", c, "ACTIVE")] :
            a \in BOOLEAN, c \in OutOfRange}
         \cup
         {[user |-> "analyst",
           body |-> Omit(LogBody("192.168.1.100", TRUE, "DDoS", Num(9500), "ACTIVE"), f)] :
            f \in SampleFields}
    ELSE IF r = 2
    THEN {[user |-> "admin", body |-> LogBody("192.168.1.100", TRUE, "DDoS", Num(9500), "ACTIVE")],
          [user |-> "admin", body |-> LogBody("192.168.1.150", FALSE, "BENIGN", Num(9400), "")]}
    ELSE {}

SweepAnalyzeInputs(r) ==
    IF r = 1
    THEN {[user |-> u, body |-> AnalyzeBody("192.168.1.100")] : u \in {"analyst", "viewer", ""}}
    ELSE {}

\* what the classifier may answer; Null is a failed call
Predictions ==
    {[is_attack |-> a, attack_type |-> t, confidence |-> c] :
        a \in BOOLEAN, t \in Classes,
        c \in {Null} \cup {Num(v) : v \in {8499, 8500, 9499, 9500}}}
    \cup {Null}

\* --------------------------------------------------------- specification
Init ==
    /\ trafficLogs = <<>>
    /\ alerts = <<>>
    /\ blockedIPs = <<>>
    /\ auditLogs = <<>>
    /\ gone = [t \in {"traffic_logs", "alerts"} |-> {}]
    /\ rooms = [t \in Topics |-> {}]
    /\ inbox = [c \in Conns |-> <<>>]
    /\ published = EmptyBag
    /\ down = {}
    /\ req = [r \in Reqs |-> IdleReq]
    /\ now = 0

\* The store under load: every slot ingests through /log while the clock
\* advances, in any interleaving.
Next ==
    \/ \E r \in Reqs : \E in \in LogInputs : LogReceive(r, in.user, in.body)
    \/ \E r \in Reqs : LogAfterTraffic(r)
    \/ \E r \in Reqs : LogAfterAlert(r)
    \/ \E r \in Reqs : LogAfterFind(r)
    \/ \E r \in Reqs : LogAfterBlock(r)
    \/ Tick

Spec == Init /\ [][Next]_vars

\* Both ingestion paths over their input space, with connections that
\* subscribe at any moment.
NextSweep ==
    \/ \E r \in Reqs : \E in \in SweepLogInputs(r) : LogReceive(r, in.user, in.body)
    \/ \E r \in Reqs : LogAfterTraffic(r)
    \/ \E r \in Reqs : LogAfterAlert(r)
    \/ \E r \in Reqs : LogAfterFind(r)
    \/ \E r \in Reqs : LogAfterBlock(r)
    \/ \E r \in Reqs : \E in \in SweepAnalyzeInputs(r) : AnalyzeReceive(r, in.user, in.body)
    \/ \E r \in Reqs : \E p \in Predictions : AnalyzeAfterPredict(r, p)
    \/ \E r \in Reqs : AnalyzeAfterTraffic(r)
    \/ \E r \in Reqs : AnalyzeAfterAlert(r)
    \/ \E c \in Conns : SubscribeAlerts(c)
    \/ \E c \in Conns : SubscribeTraffic(c)

SpecSweep == Init /\ [][NextSweep]_vars

\* The requests of the pipeline with faults: an attack above every threshold
\* and a benign sample, from different addresses.
FaultLogInputs ==
    {[user |-> "admin", body |-> LogBody("192.168.1.100", TRUE, "DDoS", Num(9500), "ACTIVE")],
     [user |-> "analyst", body |-> LogBody("192.168.1.150", FALSE, "BENIGN", Num(9400), "")]}

\* a sample with its features, and one whose srcIp is missing
FaultAnalyzeInputs ==
    {[user |-> "analyst", body |-> AnalyzeBody("192.168.1.150")],
     [user |-> "analyst", body |-> AnalyzeBody("")]}

FaultPredictions ==
    {[is_attack |-> TRUE, attack_type |-> "DDoS", confidence |-> Num(9500)],
     [is_attack |-> FALSE, attack_type |-> "BENIGN", confidence |-> Num(9400)],
     Null}

\* what the ingestion paths call after the sample is written
IngestionComponents == {"io", "alerts", "blocked_ips"}

\* Both ingestion paths while the components they call fail and recover at
\* any moment.
NextFaults ==
    \/ \E r \in Reqs : \E in \in FaultLogInputs : LogReceive(r, in.user, in.body)
    \/ \E r \in Reqs : LogAfterTraffic(r)
    \/ \E r \in Reqs : LogAfterAlert(r)
    \/ \E r \in Reqs : LogAfterFind(r)
    \/ \E r \in Reqs : LogAfterBlock(r)
    \/ \E r \in Reqs : \E in \in FaultAnalyzeInputs : AnalyzeReceive(r, in.user, in.body)
    \/ \E r \in Reqs : \E p \in FaultPredictions : AnalyzeAfterPredict(r, p)
    \/ \E r \in Reqs : AnalyzeAfterTraffic(r)
    \/ \E r \in Reqs : AnalyzeAfterAlert(r)
    \/ \E c \in IngestionComponents : Fail(c)
    \/ \E c \in IngestionComponents : Recover(c)

SpecFaults == Init /\ [][NextFaults]_vars

\* The store after the first two attacks of add-attacks.ps1 were ingested
\* through /log: a DDoS at 0.59 and a port scan at 0.82.
InitAlerts ==
    /\ now = 0
    /\ LET ddos == LogBody("192.168.1.100", TRUE, "DDoS", Num(5900), "ACTIVE")
           scan == LogBody("192.168.1.150", TRUE, "PortScan", Num(8200), "ACTIVE")
       IN  /\ trafficLogs = <<LogTrafficRow(ddos), LogTrafficRow(scan)>>
           /\ alerts = <<LogAlertRow(1, ddos), LogAlertRow(2, scan)>>
           /\ blockedIPs = <<LogBlockRow(scan, "admin")>>
    /\ auditLogs = <<>>
    /\ gone = [t \in {"traffic_logs", "alerts"} |-> {}]
    /\ rooms = [t \in Topics |-> {}]
    /\ inbox = [c \in Conns |-> <<>>]
    /\ published = EmptyBag
    /\ down = {}
    /\ req = [r \in Reqs |-> IdleReq]

\* an alert of the store, and one that exists once a third attack is ingested
AlertIds == {1, 3}

ResolveInputs ==
    {[user |-> "analyst", id |-> id, resolutionNotes |-> "false alarm"] : id \in AlertIds}
    \cup {[user |-> u, id |-> 1, resolutionNotes |-> "false alarm"] : u \in {"viewer", ""}}

\* to a user, and to an id that is no user's
AssignInputs ==
    {[user |-> "analyst", id |-> id, userId |-> "analyst"] : id \in AlertIds}
    \cup {[user |-> "admin", id |-> 1, userId |-> "nobody"]}
    \cup {[user |-> u, id |-> 1, userId |-> "analyst"] : u \in {"viewer", ""}}

GetInputs ==
    {[user |-> "viewer", id |-> id] : id \in AlertIds} \cup {[user |-> "", id |-> 1]}

AlertsLogInputs ==
    {[user |-> "admin", body |-> LogBody("192.168.1.100", TRUE, "DDoS", Num(9500), "ACTIVE")]}

\* The alerts of the store are assigned, resolved and fetched, in any
\* interleaving, beside an ingestion.
NextAlerts ==
    \/ \E r \in Reqs : \E in \in ResolveInputs :
          ResolveReceive(r, in.user, in.id, in.resolutionNotes)
    \/ \E r \in Reqs : ResolveAfterFind(r)
    \/ \E r \in Reqs : ResolveAfterUpdate(r)
    \/ \E r \in Reqs : ResolveAfterAudit(r)
    \/ \E r \in Reqs : \E in \in AssignInputs :
          AssignReceive(r, in.user, in.id, in.userId)
    \/ \E r \in Reqs : AssignAfterFind(r)
    \/ \E r \in Reqs : AssignAfterUpdate(r)
    \/ \E r \in Reqs : AssignAfterAudit(r)
    \/ \E r \in Reqs : AssignAfterReread(r)
    \/ \E r \in Reqs : \E in \in GetInputs : GetReceive(r, in.user, in.id)
    \/ \E r \in Reqs : GetAfterFind(r)
    \/ \E r \in Reqs : \E in \in AlertsLogInputs : LogReceive(r, in.user, in.body)
    \/ \E r \in Reqs : LogAfterTraffic(r)
    \/ \E r \in Reqs : LogAfterAlert(r)
    \/ \E r \in Reqs : LogAfterFind(r)
    \/ \E r \in Reqs : LogAfterBlock(r)
    \/ Tick

SpecAlerts == InitAlerts /\ [][NextAlerts]_vars

\* a row of the store with its alert, the row an ingestion is creating, and
\* an id no row has
DeleteInputs ==
    {[user |-> "admin", id |-> id] : id \in {1, 3, 4}}
    \cup {[user |-> u, id |-> 1] : u \in {"analyst", ""}}

DeleteAssignInputs == {[user |-> "analyst", id |-> 1, userId |-> "analyst"]}

DeleteResolveInputs == {[user |-> "analyst", id |-> 1, resolutionNotes |-> "false alarm"]}

\* Rows of traffic_logs are deleted beside an ingestion, an assign and a
\* resolve, in any interleaving.
NextDelete ==
    \/ \E r \in Reqs : \E in \in DeleteInputs : DeleteReceive(r, in.user, in.id)
    \/ \E r \in Reqs : DeleteAfterFind(r)
    \/ \E r \in Reqs : DeleteAfterDestroy(r)
    \/ \E r \in Reqs : \E in \in AlertsLogInputs : LogReceive(r, in.user, in.body)
    \/ \E r \in Reqs : LogAfterTraffic(r)
    \/ \E r \in Reqs : LogAfterAlert(r)
    \/ \E r \in Reqs : LogAfterFind(r)
    \/ \E r \in Reqs : LogAfterBlock(r)
    \/ \E r \in Reqs : \E in \in DeleteResolveInputs :
          ResolveReceive(r, in.user, in.id, in.resolutionNotes)
    \/ \E r \in Reqs : ResolveAfterFind(r)
    \/ \E r \in Reqs : ResolveAfterUpdate(r)
    \/ \E r \in Reqs : ResolveAfterAudit(r)
    \/ \E r \in Reqs : \E in \in DeleteAssignInputs :
          AssignReceive(r, in.user, in.id, in.userId)
    \/ \E r \in Reqs : AssignAfterFind(r)
    \/ \E r \in Reqs : AssignAfterUpdate(r)
    \/ \E r \in Reqs : AssignAfterAudit(r)
    \/ \E r \in Reqs : AssignAfterReread(r)

SpecDelete == InitAlerts /\ [][NextDelete]_vars

\* the tables the alert routes write
AlertComponents == {"alerts", "audit_logs"}

AlertFaultResolveInputs ==
    {[user |-> "analyst", id |-> id, resolutionNotes |-> "false alarm"] : id \in AlertIds}

AlertFaultAssignInputs ==
    {[user |-> "analyst", id |-> id, userId |-> "analyst"] : id \in AlertIds}
    \cup {[user |-> "admin", id |-> 1, userId |-> "nobody"]}

\* The alerts of the store are assigned and resolved while the tables the
\* routes write fail and recover.
NextAlertFaults ==
    \/ \E r \in Reqs : \E in \in AlertFaultResolveInputs :
          ResolveReceive(r, in.user, in.id, in.resolutionNotes)
    \/ \E r \in Reqs : ResolveAfterFind(r)
    \/ \E r \in Reqs : ResolveAfterUpdate(r)
    \/ \E r \in Reqs : ResolveAfterAudit(r)
    \/ \E r \in Reqs : \E in \in AlertFaultAssignInputs :
          AssignReceive(r, in.user, in.id, in.userId)
    \/ \E r \in Reqs : AssignAfterFind(r)
    \/ \E r \in Reqs : AssignAfterUpdate(r)
    \/ \E r \in Reqs : AssignAfterAudit(r)
    \/ \E r \in Reqs : AssignAfterReread(r)
    \/ \E c \in AlertComponents : Fail(c)
    \/ \E c \in AlertComponents : Recover(c)

SpecAlertFaults == InitAlerts /\ [][NextAlertFaults]_vars

\* The store after three attacks were ingested through /log 28, 20 and 3
\* minutes ago: a DDoS at 0.59, a port scan at 0.82 with its block, and a
\* DDoS at 0.45, below the alert threshold.
InitDashboard ==
    /\ now = 0
    /\ LET ddos == LogBody("192.168.1.100", TRUE, "DDoS", Num(5900), "ACTIVE")
           scan == LogBody("192.168.1.150", TRUE, "PortScan", Num(8200), "ACTIVE")
           weak == LogBody("192.168.1.100", TRUE, "DDoS", Num(4500), "ACTIVE")
       IN  /\ trafficLogs = <<[LogTrafficRow(ddos) EXCEPT !.timestamp = -28],
                              [LogTrafficRow(scan) EXCEPT !.timestamp = -20],
                              [LogTrafficRow(weak) EXCEPT !.timestamp = -3]>>
           /\ alerts = <<LogAlertRow(1, ddos), LogAlertRow(2, scan)>>
           /\ blockedIPs = <<[LogBlockRow(scan, "admin") EXCEPT
                                 !.blockedAt = -20, !.expiresAt = -20 + BlockDuration]>>
    /\ auditLogs = <<>>
    /\ gone = [t \in {"traffic_logs", "alerts"} |-> {}]
    /\ rooms = [t \in Topics |-> {}]
    /\ inbox = [c \in Conns |-> <<>>]
    /\ published = EmptyBag
    /\ down = {}
    /\ req = [r \in Reqs |-> IdleReq]

\* an attack that raises an alert and no block, and a benign sample
DashboardLogInputs ==
    {[user |-> "admin", body |-> LogBody("192.168.1.100", TRUE, "DDoS", Num(5900), "ACTIVE")],
     [user |-> "admin", body |-> LogBody("192.168.1.100", FALSE, "BENIGN", Num(9900), "ACTIVE")]}

\* The dashboard's overview is computed beside ingestions, in any
\* interleaving, as time passes.
NextDashboard ==
    \/ \E r \in Reqs : \E user \in {"viewer", ""} : OverviewReceive(r, user)
    \/ \E r \in Reqs : OverviewAfterTotal(r)
    \/ \E r \in Reqs : OverviewAfterAttacks(r)
    \/ \E r \in Reqs : OverviewAfterOpen(r)
    \/ \E r \in Reqs : OverviewAfterCritical(r)
    \/ \E r \in Reqs : OverviewAfterBlocked(r)
    \/ \E r \in Reqs : OverviewAfterIntervalTotal(r)
    \/ \E r \in Reqs : OverviewAfterIntervalAttacks(r)
    \/ \E r \in Reqs : OverviewAfterTypes(r)
    \/ \E r \in Reqs : \E in \in DashboardLogInputs : LogReceive(r, in.user, in.body)
    \/ \E r \in Reqs : LogAfterTraffic(r)
    \/ \E r \in Reqs : LogAfterAlert(r)
    \/ Tick

SpecDashboard == InitDashboard /\ [][NextDashboard]_vars

\* The store under load with its scheduling: a handler that waits for the
\* database resumes when the database answers, so every step of a handler
\* that is enabled is eventually taken.  Nothing obliges a client to send a
\* request.
SpecLive ==
    /\ Spec
    /\ \A r \in Reqs :
          /\ WF_vars(LogAfterTraffic(r))
          /\ WF_vars(LogAfterAlert(r))
          /\ WF_vars(LogAfterFind(r))
          /\ WF_vars(LogAfterBlock(r))

\* ================================================================ claims
\* The requests of POST /api/traffic/log that got past authentication.
LogReqs == {r \in Reqs : req[r].path = "log" /\ req[r].user # ""}

\* The active blocks of an address: the rows whose unblockedAt is null.
ActiveBlocks(ip) ==
    {i \in DOMAIN blockedIPs :
        blockedIPs[i].ipAddress = ip /\ blockedIPs[i].unblockedAt = Null}

\* Two requests both ran BlockedIP.findOne for the same address and both
\* found no active block.
Raced(r1, r2) ==
    /\ r1 # r2
    /\ r1 \in LogReqs /\ r2 \in LogReqs
    /\ req[r1].existingBlock = Num(0) /\ req[r2].existingBlock = Num(0)
    /\ req[r1].body.src_ip = req[r2].body.src_ip

\* C1: in every reachable state, whatever the interleaving of the /log
\* ingestions, each IP address has at most one BlockedIP row whose
\* unblockedAt is null.
C1_OneActiveBlockPerIP ==
    \A ip \in IPs : Cardinality(ActiveBlocks(ip)) <= 1

\* C1's case: two ingestions raced for the same address, both are over, and
\* the address is blocked.
C1_Witness ==
    \E r1, r2 \in Reqs :
        /\ Raced(r1, r2)
        /\ req[r1].pc = "done" /\ req[r2].pc = "done"
        /\ Cardinality(ActiveBlocks(req[r1].body.src_ip)) = 1

\* C2: when two /log ingestions of attack samples with confidence >= 0.70
\* from the same source IP both find no active block, both calls complete
\* successfully and exactly one active BlockedIP for that IP exists.
C2_RaceLoserSucceeds ==
    \A r1, r2 \in Reqs :
        (Raced(r1, r2) /\ req[r1].pc = "done" /\ req[r2].pc = "done")
        => /\ req[r1].res = "success"
           /\ req[r2].res = "success"
           /\ Cardinality(ActiveBlocks(req[r1].body.src_ip)) = 1

\* C3: the alert of a /log ingestion with is_attack and
\* 0.70 <= confidence < 0.90 has severity 4 and alertType HIGH.
C3_HighTier ==
    \A r \in LogReqs :
        (/\ req[r].alertId # 0
         /\ req[r].body.is_attack
         /\ Ge(req[r].body.confidence, 7000)
         /\ ~Ge(req[r].body.confidence, 9000))
        => /\ alerts[req[r].alertId].severity = 4
           /\ alerts[req[r].alertId].alertType = "HIGH"

\* A /log request is past its alert step: its sample is written and the
\* handler has evaluated the alert condition.
PastAlertStep(r) ==
    req[r].trafficLogId # 0 /\ req[r].pc # "log_created"

\* C4: a /log ingestion with is_attack and confidence >= 0.90, the boundary
\* included, creates an alert, and that alert has severity 5 and alertType
\* CRITICAL.
C4_CriticalTier ==
    \A r \in LogReqs :
        (/\ PastAlertStep(r)
         /\ req[r].body.is_attack
         /\ Ge(req[r].body.confidence, 9000))
        => /\ req[r].alertId \in DOMAIN alerts
           /\ alerts[req[r].alertId].trafficLogId = req[r].trafficLogId
           /\ alerts[req[r].alertId].severity = 5
           /\ alerts[req[r].alertId].alertType = "CRITICAL"

\* C4's case: an ingestion with confidence exactly 0.90 has its alert.
C4_Witness ==
    \E r \in LogReqs :
        /\ req[r].body.is_attack
        /\ req[r].body.confidence = Num(9000)
        /\ req[r].alertId # 0
        /\ req[r].pc = "done"

\* The alerts that reference a traffic row.
AlertsOf(id) == {i \in DOMAIN alerts : alerts[i].trafficLogId = id}

\* C5: a /log ingestion with is_attack and 0.50 <= confidence < 0.70, of a
\* sample the store accepts, persists the sample with trafficState 'attack',
\* creates exactly one alert, of severity 3 and alertType HIGH, and never
\* reaches the block step.
C5_MediumTier ==
    \A r \in LogReqs :
        (/\ req[r].pc = "done"
         /\ req[r].body.is_attack
         /\ Ge(req[r].body.confidence, 5000)
         /\ ~Ge(req[r].body.confidence, 7000)
         /\ TrafficLogAccepted(LogTrafficRow(req[r].body)))
        => /\ req[r].trafficLogId \in DOMAIN trafficLogs
           /\ trafficLogs[req[r].trafficLogId].trafficState = "attack"
           /\ Cardinality(AlertsOf(req[r].trafficLogId)) = 1
           /\ \A i \in AlertsOf(req[r].trafficLogId) :
                 alerts[i].severity = 3 /\ alerts[i].alertType = "HIGH"
           /\ req[r].existingBlock = Null

\* The attack flag of a request's sample is false: is_attack of the body on
\* /log, is_attack of the prediction on /analyze.
NoAttackFlag(q) ==
    \/ q.path = "log" /\ ~q.body.is_attack
    \/ q.path = "analyze" /\ q.prediction # Null /\ ~q.prediction.is_attack

C6_State ==
    \A r \in Reqs :
        NoAttackFlag(req[r])
        => /\ req[r].alertId = 0
           /\ req[r].existingBlock = Null
           /\ (req[r].trafficLogId # 0 => AlertsOf(req[r].trafficLogId) = {})

C6_Step ==
    \A r \in Reqs :
        (req'[r] # req[r] /\ NoAttackFlag(req'[r]))
        => alerts' = alerts /\ blockedIPs' = blockedIPs

\* C6: on either path, an ingestion whose attack flag is false creates no
\* Alert and no BlockedIP, whatever its confidence: no step of its handler
\* changes either table, and no alert references its sample.
C6_NoAlertWithoutAttack == []C6_State /\ [][C6_Step]_vars

\* C6's case: a /analyze ingestion predicted benign with confidence 0.95 and a
\* /log ingestion flagged benign with confidence 0.94 have both succeeded.
C6_Witness ==
    \E r1, r2 \in Reqs :
        /\ req[r1].path = "analyze" /\ req[r1].res = "success"
        /\ ~req[r1].prediction.is_attack
        /\ req[r1].prediction.confidence = Num(9500)
        /\ req[r2].path = "log" /\ req[r2].res = "success"
        /\ ~req[r2].body.is_attack
        /\ req[r2].body.confidence = Num(9400)

\* The new_alert events among the events delivered to a connection.
NewAlerts(events) == SelectSeq(events, LAMBDA e : e.event = "new_alert")

\* An authenticated /log request flagged as an attack whose confidence is
\* below 0.50 or absent, and whose sample the store accepts.
LowConfidence(q) ==
    /\ q.path = "log" /\ q.user # ""
    /\ q.body.is_attack
    /\ ~Ge(q.body.confidence, 5000)
    /\ TrafficLogAccepted(LogTrafficRow(q.body))

C7_State ==
    \A r \in Reqs :
        LowConfidence(req[r])
        => /\ req[r].pc \in {"log_created", "done"}
           /\ req[r].trafficLogId \in DOMAIN trafficLogs
           /\ trafficLogs[req[r].trafficLogId].srcIp = req[r].body.src_ip
           /\ trafficLogs[req[r].trafficLogId].confidenceScore = req[r].body.confidence
           /\ AlertsOf(req[r].trafficLogId) = {}
           /\ req[r].alertId = 0
           /\ req[r].existingBlock = Null
           /\ (req[r].pc = "done" => req[r].res = "success")

C7_Step ==
    \A r \in Reqs :
        (req'[r] # req[r] /\ LowConfidence(req'[r]))
        => /\ alerts' = alerts
           /\ blockedIPs' = blockedIPs
           /\ \A c \in Conns : NewAlerts(inbox'[c]) = NewAlerts(inbox[c])

\* C7: a /log ingestion with is_attack and a confidence below 0.50 or absent
\* persists its sample and ends with success; no step of its handler creates
\* an Alert or a BlockedIP or publishes a new_alert event.
C7_LowConfidenceFiresNothing == []C7_State /\ [][C7_Step]_vars

\* C7's case: an attack sample without a confidence has been ingested with
\* success while a connection was subscribed to 'alerts'.
C7_Witness ==
    \E r \in Reqs :
        /\ LowConfidence(req[r])
        /\ req[r].body.confidence = Null
        /\ req[r].res = "success"
        /\ rooms["alerts"] = Conns
        /\ \E c \in Conns : Len(inbox[c]) > 0

C8_State ==
    /\ \A i \in DOMAIN blockedIPs :
          /\ blockedIPs[i].expiresAt = blockedIPs[i].blockedAt + BlockDuration
          /\ blockedIPs[i].unblockedAt = Null
    /\ \A r \in LogReqs :
          (/\ req[r].res = "success"
           /\ req[r].body.is_attack
           /\ Ge(req[r].body.confidence, 7000))
          => ActiveBlocks(req[r].body.src_ip) # {}

C8_Step ==
    /\ (\A r \in Reqs : req'[r] = req[r]) => blockedIPs' = blockedIPs
    /\ \A r \in Reqs :
          req'[r] # req[r]
          => IF req[r].pc = "log_looked" /\ ActiveBlocks(req[r].body.src_ip) = {}
             THEN /\ Len(blockedIPs') = Len(blockedIPs) + 1
                  /\ SubSeq(blockedIPs', 1, Len(blockedIPs)) = blockedIPs
                  /\ LET b == blockedIPs'[Len(blockedIPs')]
                     IN  /\ b.ipAddress = req[r].body.src_ip
                         /\ b.blockedAt = now
                         /\ b.expiresAt = now + BlockDuration
                         /\ b.unblockedAt = Null
             ELSE blockedIPs' = blockedIPs

\* C8: a /log ingestion with is_attack and confidence >= 0.70 that reaches
\* BlockedIP.create while its source IP has no active block adds one
\* BlockedIP row for that IP, with expiresAt 24 hours after blockedAt and
\* unblockedAt null; every other step, and that step when an active block
\* exists, leaves the table unchanged; after a successful call the IP has an
\* active block.
C8_AutoBlock == []C8_State /\ [][C8_Step]_vars

\* C8's case: one ingestion created the block at minute 1, and another, for the
\* same IP, found it and created none.
C8_Witness ==
    \E r1, r2 \in LogReqs :
        /\ req[r1].res = "success" /\ req[r1].existingBlock = Num(0)
        /\ req[r2].res = "success" /\ req[r2].existingBlock = Num(1)
        /\ Len(blockedIPs) = 1
        /\ blockedIPs[1].blockedAt = 1

\* The /log requests whose sample satisfies the constraints of the table.
ValidLogReqs ==
    {r \in LogReqs : TrafficLogAccepted(LogTrafficRow(req[r].body))}

\* C9: the /log calls that ingest valid samples, in any interleaving, persist
\* one TrafficSample row each: as many rows as samples, no two requests share
\* a row, and each row keeps the sample of its request, also while alert and
\* block steps for the same source IP run.
C9_NoLostWrites ==
    /\ Len(trafficLogs) =
          Cardinality(ValidLogReqs)
          + Cardinality({r \in Reqs : req[r].path = "analyze" /\ req[r].trafficLogId # 0})
    /\ \A r \in ValidLogReqs :
          /\ req[r].trafficLogId \in DOMAIN trafficLogs
          /\ trafficLogs[req[r].trafficLogId].srcIp = req[r].body.src_ip
          /\ trafficLogs[req[r].trafficLogId].isAttack = req[r].body.is_attack
          /\ trafficLogs[req[r].trafficLogId].confidenceScore = req[r].body.confidence
    /\ \A r1, r2 \in ValidLogReqs :
          r1 # r2 => req[r1].trafficLogId # req[r2].trafficLogId

\* C9's case: two concurrent ingestions for the same source IP, both with an
\* alert and both at the block step, and two rows.
C9_Witness ==
    \E r1, r2 \in ValidLogReqs :
        /\ Raced(r1, r2)
        /\ req[r1].pc = "done" /\ req[r2].pc = "done"
        /\ Len(trafficLogs) = 2

\* How many new_alert events for an alert a connection has received.
NewAlertCount(c, id) ==
    Len(SelectSeq(inbox[c], LAMBDA e : e.event = "new_alert" /\ e.id = id))

\* C10: when an ingestion that persisted an Alert is over, every connection
\* that was subscribed to 'alerts' before the sample arrived has received
\* exactly one new_alert event for that Alert.
C10_OneNewAlertPerAlert ==
    \A r \in Reqs :
        (req[r].pc = "done" /\ req[r].alertId # 0)
        => \A c \in req[r].alertsRoomAtStart : NewAlertCount(c, req[r].alertId) = 1

\* The topic an event is published to.
TopicOf(event) == IF event = "new_alert" THEN "alerts" ELSE "traffic"

\* The events of a kind a connection has received.
Received(c, event) == SelectSeq(inbox[c], LAMBDA e : e.event = event)

\* A connection outside a room has received none of its events (no step
\* takes a connection out of a room).
C11_State ==
    \A c \in Conns :
        /\ c \notin rooms["alerts"] => Received(c, "new_alert") = <<>>
        /\ c \notin rooms["traffic"] => Received(c, "new_traffic") = <<>>

\* A step delivers an event only to a connection that was in the event's
\* room when the step began, and takes nothing back.
C11_Step ==
    \A c \in Conns :
        /\ Len(inbox'[c]) >= Len(inbox[c])
        /\ SubSeq(inbox'[c], 1, Len(inbox[c])) = inbox[c]
        /\ \A i \in (Len(inbox[c]) + 1)..Len(inbox'[c]) :
              c \in rooms[TopicOf(inbox'[c][i].event)]

\* C11: a connection that is not subscribed to a topic when an event is
\* published to it never receives that event: not if it never subscribed,
\* and not if it subscribed after the publication.  A connection subscribed
\* only to 'traffic' never receives new_alert, and one subscribed only to
\* 'alerts' never receives new_traffic.
C11_NotSubscribedNotDelivered == []C11_State /\ [][C11_Step]_vars

\* C11's case: an ingestion published new_alert and new_traffic while the
\* connection was subscribed to 'traffic' only; the connection received the
\* new_traffic, subscribed to 'alerts' afterwards, and has no new_alert.
C11_Witness ==
    \E r \in Reqs : \E c \in Conns :
        /\ req[r].pc = "done" /\ req[r].res = "success" /\ req[r].alertId # 0
        /\ c \notin req[r].alertsRoomAtStart
        /\ CopiesIn([topic |-> "alerts", event |-> "new_alert", id |-> req[r].alertId],
                    published) = 1
        /\ c \in rooms["alerts"] /\ c \in rooms["traffic"]
        /\ Received(c, "new_alert") = <<>>
        /\ \E i \in DOMAIN inbox[c] :
              inbox[c][i] = [event |-> "new_traffic", id |-> req[r].trafficLogId]

\* How many times new_traffic was published for a sample.
TrafficPublished(id) ==
    CopiesIn([topic |-> "traffic", event |-> "new_traffic", id |-> id], published)

\* new_traffic is published for persisted samples only, to 'traffic' only,
\* and at most once for a sample.
C12_State ==
    \A e \in BagToSet(published) :
        e.event = "new_traffic"
        => /\ e.topic = "traffic"
           /\ e.id \in DOMAIN trafficLogs
           /\ CopiesIn(e, published) = 1

\* C12: for every TrafficSample persisted by an ingestion, exactly one
\* new_traffic event carrying that sample is eventually published to the
\* 'traffic' topic, and it is never published before the sample is
\* persisted.
C12_NewTrafficForEverySample ==
    /\ []C12_State
    /\ \A id \in Reqs : (id \in DOMAIN trafficLogs) ~> (TrafficPublished(id) = 1)

\* The errors of the store: a row it rejects, a constraint, a failed query.
StoreErrors ==
    {"ValidationError", "UniqueConstraintError", "ForeignKeyConstraintError",
     "DatabaseError"}

\* An ingestion that is over, that persisted its sample, and none of whose
\* persistence steps threw.
PersistedAll(r) ==
    /\ req[r].pc = "done"
    /\ req[r].trafficLogId # 0
    /\ req[r].error \notin StoreErrors

\* C13: a failure while publishing new_traffic or new_alert is never
\* surfaced to the caller of the ingestion: when every persistence step
\* succeeded, the call returns success, even if the publication failed.
C13_PublishFailureNotSurfaced ==
    \A r \in Reqs : PersistedAll(r) => req[r].res = "success"

\* The requests of POST /api/traffic/analyze whose call of the classifier failed.
ClassifierFailed(q, r) == q[r].path = "analyze" /\ q[r].error = "ClassifierError"

\* A request whose classifier call failed is over, was answered
\* AnalysisError, and holds no sample and no alert.
C14_State ==
    \A r \in Reqs :
        ClassifierFailed(req, r)
        => /\ req[r].pc = "done"
           /\ req[r].res = "AnalysisError"
           /\ req[r].trafficLogId = 0 /\ req[r].alertId = 0

\* The step in which the classifier call fails changes no table and
\* publishes nothing, and the request takes no step afterwards.
C14_Step ==
    \A r \in Reqs :
        /\ (~ClassifierFailed(req, r) /\ ClassifierFailed(req', r))
           => UNCHANGED <<trafficLogs, alerts, blockedIPs, published, inbox>>
        /\ ClassifierFailed(req, r) => req'[r] = req[r]

\* C14: on the /analyze path, when the call of the classifier fails
\* (unreachable, timeout, error response), the ingestion is aborted with
\* AnalysisError and the store is unchanged: no TrafficSample, Alert or
\* BlockedIP is persisted and no event is published.
C14_ClassifierFailureAborts == []C14_State /\ [][C14_Step]_vars

\* C14's case: a classifier call failed while the store held the rows of
\* another ingestion and a connection was subscribed to 'traffic'.
C14_Witness ==
    \E r \in Reqs :
        /\ ClassifierFailed(req, r)
        /\ req[r].user = "analyst"
        /\ trafficLogs # <<>> /\ alerts # <<>> /\ blockedIPs # <<>>
        /\ rooms["traffic"] # {}

\* The requests of POST /api/traffic/analyze that ended with a failure of
\* the store: the row rejected, or a constraint violated.
PersistenceFailed(r) ==
    req[r].path = "analyze" /\ req[r].pc = "done" /\ req[r].error \in StoreErrors

\* C15: on the /analyze path, the error kind reported to the caller for a
\* failure of the classifier is different from the error kind reported for
\* a persistence failure.
C15_DistinctErrorKinds ==
    \A r1, r2 \in Reqs :
        (ClassifierFailed(req, r1) /\ PersistenceFailed(r2))
        => req[r1].res # req[r2].res

\* The requests of POST /api/traffic/log whose body lacks a field of the sample.
Incomplete(r) ==
    /\ r \in LogReqs
    /\ \E f \in SampleFields : req[r].body[f] = Absent(f)

\* C16: a /log request that omits any one of source IP, destination IP,
\* source port, destination port, protocol or packet size is rejected before
\* any persistence: it creates no TrafficSample, Alert or BlockedIP and
\* publishes no event.
C16_IncompleteRejected ==
    \A r \in Reqs :
        Incomplete(r)
        => /\ req[r].pc = "done" /\ req[r].res = "LogError"
           /\ req[r].trafficLogId = 0 /\ req[r].alertId = 0
           /\ req[r].existingBlock = Null

\* The requests of POST /api/traffic/log whose confidence is outside [0, 1].
NoProbability(r) ==
    /\ r \in LogReqs
    /\ req[r].body.confidence # Null
    /\ (req[r].body.confidence[1] < 0 \/ req[r].body.confidence[1] > 10000)

\* C17: a /log request whose confidence lies outside [0, 1] is rejected: no
\* TrafficSample, Alert or BlockedIP is created for it.
C17_OutOfRangeRejected ==
    \A r \in Reqs :
        NoProbability(r)
        => /\ req[r].pc = "done" /\ req[r].res = "LogError"
           /\ req[r].trafficLogId = 0 /\ req[r].alertId = 0
           /\ req[r].existingBlock = Null

\* C18: for every sample persisted by /log, whatever state the caller
\* supplied, the persisted trafficState is 'attack' when the attack flag is
\* true and 'normal' otherwise, and so is always one of normal, suspicious,
\* attack, blocked.
C18_StateFromAttackFlag ==
    \A r \in LogReqs :
        req[r].trafficLogId # 0
        => /\ trafficLogs[req[r].trafficLogId].trafficState =
                (IF req[r].body.is_attack THEN "attack" ELSE "normal")
           /\ trafficLogs[req[r].trafficLogId].trafficState \in TrafficStates

\* The label an ingestion that persisted a sample had for it: the caller's
\* predicted_class on /log, the classifier's attack_type on /analyze.
PredictedLabel(r) ==
    IF req[r].path = "log" THEN req[r].body.predicted_class
    ELSE req[r].prediction.attack_type

\* C19: for every sample persisted by either ingestion path, attackType
\* equals the predicted label when that label is not the benign sentinel
\* 'BENIGN', and is absent when the label is 'BENIGN'.
C19_AttackTypeUnlessBenign ==
    \A r \in Reqs :
        req[r].trafficLogId # 0
        => trafficLogs[req[r].trafficLogId].attackType =
              (IF PredictedLabel(r) = "BENIGN" THEN "" ELSE PredictedLabel(r))

\* The columns a resolve writes.
ResolveColumns == {"status", "resolvedAt", "resolutionNotes"}

\* The step in which the handler of slot r runs alert.update of a resolve.
ResolveUpdates(r) == req[r].pc = "rs_found" /\ req'[r].pc = "rs_updated"

\* The response of a successful resolve carries status 'resolved' and a
\* resolvedAt, and a successful fetch carries the row its findByPk read.
C20_State ==
    \A r \in Reqs :
        /\ (req[r].path = "resolve" /\ req[r].res = "success")
           => /\ req[r].sent # Null
              /\ req[r].sent[1].status = "resolved"
              /\ req[r].sent[1].resolvedAt # Null
        /\ (req[r].path = "get" /\ req[r].res = "success")
           => req[r].sent = req[r].alert

\* The update of a resolve leaves the alert with status 'resolved' and a
\* resolvedAt and changes only the columns it writes, of that alert; a fetch
\* reads the alert as the store holds it; and no step of a resolve or of a
\* fetch changes any other Alert, any TrafficSample or any BlockedIP.
C20_Step ==
    \A r \in Reqs :
        (req'[r] # req[r] /\ req'[r].path \in {"resolve", "get"})
        => /\ trafficLogs' = trafficLogs
           /\ blockedIPs' = blockedIPs
           /\ DOMAIN alerts' = DOMAIN alerts
           /\ IF ResolveUpdates(r)
              THEN /\ req[r].body.id \in DOMAIN alerts
                   /\ alerts'[req[r].body.id].status = "resolved"
                   /\ alerts'[req[r].body.id].resolvedAt # Null
                   /\ \A i \in DOMAIN alerts :
                         \A f \in DOMAIN alerts[i] :
                            (i # req[r].body.id \/ f \notin ResolveColumns)
                            => alerts'[i][f] = alerts[i][f]
              ELSE alerts' = alerts
           /\ (req'[r].path = "get" /\ req'[r].pc = "get_found")
              => req'[r].alert = FindByPk(req'[r].body.id)

\* C20: after a successful resolve of an existing Alert, the alert has
\* status 'resolved' and a non-null resolvedAt, a subsequent fetch of the
\* alert returns both values, and the linked TrafficSample and every other
\* TrafficSample, Alert and BlockedIP record are unchanged by the resolve.
C20_ResolveRoundTrip == []C20_State /\ [][C20_Step]_vars

\* C20's case: an alert was resolved, with the audit entry written, and a
\* fetch that followed returned it resolved, with its resolvedAt, its
\* sample still linked and as ingested.
C20_Witness ==
    \E r1, r2 \in Reqs :
        /\ req[r1].path = "resolve" /\ req[r1].res = "success"
        /\ req[r2].path = "get" /\ req[r2].res = "success"
        /\ req[r1].body.id = req[r2].body.id
        /\ req[r2].sent[1].status = "resolved"
        /\ req[r2].sent[1].resolvedAt = req[r1].sent[1].resolvedAt
        /\ req[r2].sent[1].resolvedAt # Null
        /\ req[r2].sent[1].trafficLogId \in DOMAIN trafficLogs
        /\ trafficLogs[req[r2].sent[1].trafficLogId].trafficState = "attack"
        /\ auditLogs # <<>>

\* The requests to assign or to resolve an alert from a caller who is no
\* analyst and no admin: a viewer, or nobody.
Uninvited(q, r) ==
    q[r].path \in {"assign", "resolve"} /\ q[r].user \notin {"admin", "analyst"}

\* The step in which the handler of slot r runs alert.update of an assign.
AssignUpdates(r) == req[r].pc = "as_found" /\ req'[r].pc = "as_updated"

\* Such a request is over as soon as it arrived, with a rejection.
C21_State ==
    \A r \in Reqs :
        Uninvited(req, r)
        => /\ req[r].pc = "done"
           /\ req[r].res = (IF req[r].user = "" THEN "Unauthorized" ELSE "Forbidden")

\* Its steps change no alert and not the audit log; and the update of an
\* assign sets assignedTo to the given user and status to 'investigating'.
C21_Step ==
    \A r \in Reqs :
        /\ (req'[r] # req[r] /\ Uninvited(req', r))
           => alerts' = alerts /\ auditLogs' = auditLogs
        /\ AssignUpdates(r)
           => /\ req[r].user \in {"admin", "analyst"}
              /\ alerts'[req[r].body.id].assignedTo = req[r].body.userId
              /\ alerts'[req[r].body.id].status = "investigating"
        /\ ResolveUpdates(r) => req[r].user \in {"admin", "analyst"}

\* C21: assign and resolve take effect only for callers with role analyst
\* or admin: a request from a viewer or from an unauthenticated caller is
\* rejected and leaves the alert's status, assignedTo, resolvedAt and the
\* audit log unchanged; a successful assign sets assignedTo to the given
\* user and status to 'investigating'.
C21_RoleGatedLifecycle == []C21_State /\ [][C21_Step]_vars

\* C21's case: a viewer's resolve of an alert was rejected, and an
\* analyst's assign of the same alert succeeded.
C21_Witness ==
    \E r1, r2 \in Reqs :
        /\ req[r1].path = "resolve" /\ req[r1].user = "viewer"
        /\ req[r1].res = "Forbidden"
        /\ req[r2].path = "assign" /\ req[r2].user = "analyst"
        /\ req[r2].res = "success"
        /\ req[r2].body.id = req[r1].body.id
        /\ alerts[req[r2].body.id].assignedTo = "analyst"
        /\ alerts[req[r2].body.id].status = "investigating"
        /\ alerts[req[r2].body.id].resolvedAt = Null
        /\ Len(auditLogs) = 1

\* No step of a request authenticated as a viewer changes a table of
\* samples, alerts or blocks.
C22_Step ==
    \A r \in Reqs :
        (req'[r] # req[r] /\ req'[r].user = "viewer")
        => UNCHANGED <<trafficLogs, alerts, blockedIPs>>

\* C22: a viewer is read-only: no sequence of requests authenticated as a
\* viewer creates, modifies or deletes any TrafficSample, Alert or BlockedIP
\* record.
C22_ViewerReadOnly == [][C22_Step]_vars

\* The requests of POST /api/traffic/analyze that persisted their sample and
\* are past the alert step.
AnalyzedPastAlertStep(r) ==
    /\ req[r].path = "analyze"
    /\ req[r].trafficLogId # 0
    /\ req[r].pc \in {"an_alerted", "done"}

\* Past the alert step there is an alert exactly when the classifier
\* reported an attack at 0.85 or more, with severity 5 from 0.95 and 4 below.
C23_State ==
    \A r \in Reqs :
        AnalyzedPastAlertStep(r)
        => /\ (req[r].alertId # 0)
                <=> (/\ req[r].prediction.is_attack
                     /\ req[r].prediction.confidence # Null
                     /\ req[r].prediction.confidence[1] >= 8500)
           /\ req[r].alertId # 0
              => /\ alerts[req[r].alertId].trafficLogId = req[r].trafficLogId
                 /\ alerts[req[r].alertId].severity =
                       (IF req[r].prediction.confidence[1] >= 9500 THEN 5 ELSE 4)
           /\ AlertsOf(req[r].trafficLogId)
                = (IF req[r].alertId # 0 THEN {req[r].alertId} ELSE {})

\* No step of the /analyze handler changes the table of blocks.
C23_Step ==
    \A r \in Reqs :
        (req'[r] # req[r] /\ req'[r].path = "analyze") => blockedIPs' = blockedIPs

\* C23: on the /analyze path an Alert is created if and only if the
\* classifier reports an attack with confidence >= 0.85; its severity is 5
\* when confidence >= 0.95 and 4 otherwise; and this path never creates or
\* modifies a BlockedIP record.
C23_AnalyzePolicy == []C23_State /\ [][C23_Step]_vars

\* C23's case: the classifier reported an attack at exactly 0.85, the call
\* is over with an alert of severity 4, and the source is not blocked.
C23_Witness ==
    \E r \in Reqs :
        /\ AnalyzedPastAlertStep(r) /\ req[r].res = "success"
        /\ req[r].prediction.is_attack
        /\ req[r].prediction.confidence = Num(8500)
        /\ req[r].alertId # 0
        /\ alerts[req[r].alertId].severity = 4
        /\ ActiveBlocks(req[r].body.srcIp) = {}

\* The ingestion of slot r created a block: its findOne found none and its
\* BlockedIP.create went through.
CreatedBlock(r) ==
    /\ req[r].existingBlock = Num(0)
    /\ req[r].error = ""
    /\ req[r].pc \in {"log_blocked", "done"}

\* C24: an Alert's autoBlocked flag is true exactly when the ingestion that
\* created the alert triggered the creation of an automatic BlockedIP
\* record, and false otherwise.
C24_AutoBlockedFlag ==
    \A r \in LogReqs :
        (req[r].pc = "done" /\ req[r].alertId # 0)
        => (alerts[req[r].alertId].autoBlocked <=> CreatedBlock(r))

\* The ingestions through /log whose sample was written and whose alert or
\* block step failed afterwards.
LaterStepFailed(r) ==
    /\ req[r].path = "log"
    /\ req[r].trafficLogId # 0
    /\ req[r].error \in StoreErrors

\* Such an ingestion is over, was answered with an error, and its sample
\* is in the store as it was ingested.
C25_State ==
    \A r \in Reqs :
        LaterStepFailed(r)
        => /\ req[r].pc = "done"
           /\ req[r].res = "LogError"
           /\ req[r].trafficLogId \in DOMAIN trafficLogs
           /\ trafficLogs[req[r].trafficLogId].srcIp = req[r].body.src_ip
           /\ trafficLogs[req[r].trafficLogId].isAttack = req[r].body.is_attack
           /\ trafficLogs[req[r].trafficLogId].confidenceScore = req[r].body.confidence

\* No step removes or changes a sample of the store.
C25_Step ==
    /\ Len(trafficLogs') >= Len(trafficLogs)
    /\ \A i \in DOMAIN trafficLogs : trafficLogs'[i] = trafficLogs[i]

\* C25: once the TrafficSample write of an ingestion has succeeded, a
\* failure in the later alert-creation or block-creation step is reported
\* to the caller as an error and leaves the persisted TrafficSample present
\* and unmodified (no rollback), in every interleaving with other
\* ingestions.
C25_NoRollback == []C25_State /\ [][C25_Step]_vars

\* C25's case: the alert step of one ingestion failed and the block step of
\* another, and both samples are in the store.
C25_Witness ==
    \E r1, r2 \in Reqs :
        /\ LaterStepFailed(r1) /\ LaterStepFailed(r2)
        /\ req[r1].alertId = 0
        /\ req[r2].alertId # 0
        /\ Len(trafficLogs) = 2

\* ---------------------------------------------------------------- C26
\* the alerts in the table
LiveAlerts == DOMAIN alerts \ gone["alerts"]

\* the rows of traffic_logs in the table
LiveTrafficLogs == DOMAIN trafficLogs \ gone["traffic_logs"]

\* C26: in every reachable state, after ingestions, assigns, resolves and
\* admin deletions of traffic rows, every alert in the store references a
\* traffic sample that is in the store.
C26_AlertReferencesSample ==
    \A i \in LiveAlerts : alerts[i].trafficLogId \in LiveTrafficLogs

\* a sample that had an alert was deleted by an admin, while another
\* alert stays in the store
C26_Witness ==
    /\ \E r \in Reqs :
          /\ req[r].path = "delete"
          /\ req[r].res = "success"
          /\ AlertsOf(req[r].body.id) # {}
    /\ LiveAlerts # {}

\* ---------------------------------------------------------------- C27
\* C27: after any sequence of assign and resolve operations on an alert, the
\* alert's resolvedAt is set exactly when its status is 'resolved'.
C27_ResolvedAtIffResolved ==
    \A i \in DOMAIN alerts :
       (alerts[i].resolvedAt # Null) <=> (alerts[i].status = "resolved")

\* ---------------------------------------------------------------- C28
\* the overviews answered
Overviews == {r \in Reqs : req[r].path = "overview" /\ req[r].res = "success"}

\* C28: every snapshot GET /api/dashboard/overview returns is consistent,
\* also when ingestions run beside its queries: the attacks of the last day
\* are no more than the total, and no interval of the timeline has a
\* negative number of normal samples.
C28_SnapshotConsistent ==
    \A r \in Overviews :
       LET snapshot == req[r].sent[1]
       IN  /\ snapshot.stats.attacks <= snapshot.stats.total
           /\ \A k \in DOMAIN snapshot.trafficTimeline :
                  snapshot.trafficTimeline[k].normal >= 0

\* ---------------------------------------------------------------- C29
\* the intervals of the overview of slot r that hold the time t
IntervalsHolding(r, t) ==
    {k \in DOMAIN req[r].queried :
        Between(t, req[r].queried[k][1], req[r].queried[k][2])}

\* C29: the six intervals of the timeline partition the 30 minutes before
\* the overview's time: a sample whose timestamp is inside that window is
\* counted by exactly one interval, and a sample older than the window by
\* none. Only the samples older than the overview's time are judged, and
\* the two ends of the window are left to either reading.
C29_IntervalsPartitionWindow ==
    \A r \in Overviews :
       \A k \in LiveTrafficLogs :
          LET t == trafficLogs[k].timestamp
              window == (FirstInterval + 1) * IntervalWidth
          IN  /\ (req[r].at - window < t /\ t < req[r].at)
                    => Cardinality(IntervalsHolding(r, t)) = 1
              /\ t < req[r].at - window
                    => IntervalsHolding(r, t) = {}

\* ---------------------------------------------------------------- C30
\* the columns the alert routes write
LifecycleColumns == {"status", "assignedTo", "resolvedAt", "resolutionNotes"}

\* the assign and resolve requests answered with an error
FailedUpdates ==
    {r \in Reqs : /\ req[r].path \in {"assign", "resolve"}
                  /\ req[r].res \in {"NotFound", "AssignError", "ResolveError"}}

\* no other request names the alert of slot r
AloneOnAlert(r) ==
    \A q \in Reqs \ {r} :
       req[q].path \in {"assign", "resolve"} => req[q].body.id # req[r].body.id

\* C30: when an assign or a resolve ends with NotFound, AssignError or
\* ResolveError, the alert it names has the status, assignedTo, resolvedAt
\* and resolutionNotes it had when the request arrived. Judged where no
\* other request names the same alert.
C30_ErrorLeavesAlertUnchanged ==
    \A r \in FailedUpdates :
       (AloneOnAlert(r) /\ req[r].alertAtStart # Null)
          => \A f \in LifecycleColumns :
                alerts[req[r].body.id][f] = req[r].alertAtStart[1][f]

====
